---- MODULE Spec2Model ----
(***************************************************************************)
(* Model of core/src/worker/client.rs: the WorkerClientBag facade over the *)
(* retrying transport client.  Every operation of the WorkerClient trait   *)
(* assembles one request from its arguments, the immutable session fields  *)
(* and the capability negotiator's values, hands it to the transport and   *)
(* returns the transport's outcome.                                        *)
(***************************************************************************)
EXTENDS Naturals, Sequences, FiniteSets, TLC

VARIABLES bag, caps, tasks

vars == <<bag, caps, tasks>>

(***************************************************************************)
(* Option<T>: None is the empty sequence, Some(v) the one-element one.     *)
(***************************************************************************)
None == <<>>

Some(v) == <<v>>

IsSome(o) == Len(o) = 1

(* Option::unwrap_or_default for Option<String>: the default String is "". *)
unwrap_or_default(o) == IF IsSome(o) THEN o[1] ELSE ""

(***************************************************************************)
(* Capability negotiator.                                                  *)
(***************************************************************************)
(* Capabilities::default(): every flag false. *)
DefaultCapabilities == [build_id_based_versioning |-> FALSE]

(* c is the transport's cached descriptor, an Option<Capabilities>. *)
default_capabilities(c) == IF IsSome(c) THEN c[1] ELSE DefaultCapabilities

binary_checksum_always_build_id(c, b) == b.worker_build_id

binary_checksum(c, b) ==
    IF default_capabilities(c).build_id_based_versioning
    THEN ""
    ELSE b.worker_build_id

worker_version_capabilities(c, b) ==
    IF default_capabilities(c).build_id_based_versioning
    THEN Some([build_id |-> b.worker_build_id,
               use_versioning |-> b.use_versioning])
    ELSE None

worker_version_stamp_inverted(c, b) ==
    IF default_capabilities(c).build_id_based_versioning
    THEN None
    ELSE Some([build_id |-> b.worker_build_id,
               bundle_id |-> "",
               use_versioning |-> b.use_versioning])

worker_version_stamp(c, b) ==
    IF default_capabilities(c).build_id_based_versioning
    THEN Some([build_id |-> b.worker_build_id,
               bundle_id |-> "",
               use_versioning |-> b.use_versioning])
    ELSE None

(* One call of a negotiator helper against the cache as it is right now. *)
Negotiate(name, c, b) ==
    CASE name = "binary_checksum" -> binary_checksum(c, b)
      [] name = "worker_version_capabilities" -> worker_version_capabilities(c, b)
      [] name = "worker_version_stamp" -> worker_version_stamp(c, b)

(***************************************************************************)
(* The operations of the WorkerClient trait.                               *)
(***************************************************************************)
CallOps == {"poll_workflow_task", "poll_activity_task", "complete_workflow_task",
            "complete_activity_task", "record_activity_heartbeat",
            "cancel_activity_task", "fail_activity_task", "fail_workflow_task",
            "get_workflow_execution_history", "respond_legacy_query"}

(* The negotiator helpers an operation calls while it evaluates the fields *)
(* of its request literal, in the order of the fields in the source.       *)
NegotiatorCalls(op) ==
    CASE op = "poll_workflow_task" ->
            <<"binary_checksum", "worker_version_capabilities">>
      [] op = "poll_activity_task" -> <<"worker_version_capabilities">>
      [] op = "complete_workflow_task" ->
            <<"worker_version_stamp", "binary_checksum">>
      [] op = "complete_activity_task" -> <<"worker_version_stamp">>
      [] op = "record_activity_heartbeat" -> <<>>
      [] op = "cancel_activity_task" -> <<"worker_version_stamp">>
      [] op = "fail_activity_task" -> <<"worker_version_stamp">>
      [] op = "fail_workflow_task" ->
            <<"binary_checksum", "worker_version_stamp">>
      [] op = "get_workflow_execution_history" -> <<>>
      [] op = "respond_legacy_query" -> <<>>

(* The value helper `name` returned to operation op; vals holds the values *)
(* in call order.                                                          *)
Negotiated(op, vals, name) ==
    vals[CHOOSE i \in 1..Len(NegotiatorCalls(op)) : NegotiatorCalls(op)[i] = name]

(***************************************************************************)
(* Values of the protocol crate the client passes through.                 *)
(***************************************************************************)
(* A protobuf enum value: its variant and the discriminant `as i32` gives. *)
EnumValue(variant, discriminant) ==
    [variant |-> variant, discriminant |-> discriminant]

AsI32(e) == e.discriminant

TaskQueueKind == [Unspecified |-> EnumValue("Unspecified", 0),
                  Normal |-> EnumValue("Normal", 1),
                  Sticky |-> EnumValue("Sticky", 2)]

QueryResultType == [Unspecified |-> EnumValue("Unspecified", 0),
                    Answered |-> EnumValue("Answered", 1),
                    Failed |-> EnumValue("Failed", 2)]

WorkflowTaskFailedCause == [Unspecified |-> EnumValue("Unspecified", 0),
                            UnhandledCommand |-> EnumValue("UnhandledCommand", 1)]

(* TaskToken(Vec<u8>): a one-field wrapper; .0 and into() take the bytes.  *)
TaskToken(bytes) == [inner |-> bytes]

TaskTokenBytes(token) == token.inner

(* QueryResult::into_components: a query result taken apart into           *)
(* (query id, completion type, answer payload, error message).             *)
into_components(qr) ==
    <<qr.query_id, qr.completed_type, qr.answer, qr.error_message>>

(* The query_results field is a map keyed by query id: inserting under a   *)
(* key that is there replaces its value.                                   *)
EmptyMap == <<>>

MapInsert(m, k, v) ==
    [x \in (DOMAIN m) \cup {k} |-> IF x = k THEN v ELSE m[x]]

(***************************************************************************)
(* Request assembly, one operator per request literal.  b is the bag, a    *)
(* the operation's arguments, v the negotiator values in call order.       *)
(***************************************************************************)
WorkflowQueryResultOf(qr) ==
    LET c == into_components(qr)
    IN  <<c[1], [result_type |-> AsI32(c[2]),
                 answer |-> c[3],
                 error_message |-> c[4]]>>

RECURSIVE CollectFromIter(_, _)
CollectFromIter(m, pairs) ==
    IF pairs = <<>> THEN m
    ELSE CollectFromIter(MapInsert(m, Head(pairs)[1], Head(pairs)[2]), Tail(pairs))

QueryResultsNoError(query_responses) ==
    CollectFromIter(EmptyMap,
        [i \in 1..Len(query_responses) |->
            <<query_responses[i].query_id,
              [result_type |-> AsI32(query_responses[i].completed_type),
               answer |-> query_responses[i].answer,
               error_message |-> ""]>>])

(* request.query_responses.into_iter().map(..).collect() *)
QueryResults(query_responses) ==
    CollectFromIter(EmptyMap,
        [i \in 1..Len(query_responses) |-> WorkflowQueryResultOf(query_responses[i])])

PollWorkflowTaskQueueRequest(b, a, v) ==
    [rpc |-> "poll_workflow_task_queue",
     namespace |-> b.namespace,
     task_queue |-> Some(a.task_queue),
     identity |-> b.identity,
     binary_checksum |-> Negotiated("poll_workflow_task", v, "binary_checksum"),
     worker_version_capabilities |->
         Negotiated("poll_workflow_task", v, "worker_version_capabilities")]

(* max_tasks_per_sec.map(|tps| TaskQueueMetadata { .. }) *)
TaskQueueMetadataOf(max_tasks_per_sec) ==
    IF IsSome(max_tasks_per_sec)
    THEN Some([max_tasks_per_second |-> Some(max_tasks_per_sec[1])])
    ELSE None

PollActivityTaskQueueRequestAlwaysMetadata(b, a, v) ==
    [rpc |-> "poll_activity_task_queue",
     namespace |-> b.namespace,
     task_queue |-> Some([name |-> a.task_queue,
                          kind |-> AsI32(TaskQueueKind.Normal),
                          normal_name |-> ""]),
     identity |-> b.identity,
     task_queue_metadata |-> Some([max_tasks_per_second |-> a.max_tasks_per_sec]),
     worker_version_capabilities |->
         Negotiated("poll_activity_task", v, "worker_version_capabilities")]

PollActivityTaskQueueRequest(b, a, v) ==
    [rpc |-> "poll_activity_task_queue",
     namespace |-> b.namespace,
     task_queue |-> Some([name |-> a.task_queue,
                          kind |-> AsI32(TaskQueueKind.Normal),
                          normal_name |-> ""]),
     identity |-> b.identity,
     task_queue_metadata |-> TaskQueueMetadataOf(a.max_tasks_per_sec),
     worker_version_capabilities |->
         Negotiated("poll_activity_task", v, "worker_version_capabilities")]

RespondWorkflowTaskCompletedRequestSwapped(b, a, v) ==
    [rpc |-> "respond_workflow_task_completed",
     task_token |-> TaskTokenBytes(a.task_token),
     commands |-> a.commands,
     identity |-> b.identity,
     sticky_attributes |-> a.sticky_attributes,
     return_new_workflow_task |-> a.force_create_new_workflow_task,
     force_create_new_workflow_task |-> a.return_new_workflow_task,
     worker_version_stamp |->
         Negotiated("complete_workflow_task", v, "worker_version_stamp"),
     messages |-> <<>>,
     binary_checksum |-> Negotiated("complete_workflow_task", v, "binary_checksum"),
     query_results |-> QueryResults(a.query_responses),
     namespace |-> b.namespace,
     sdk_metadata |-> Some(a.sdk_metadata),
     metering_metadata |-> Some(a.metering_metadata)]

RespondWorkflowTaskCompletedRequest(b, a, v) ==
    [rpc |-> "respond_workflow_task_completed",
     task_token |-> TaskTokenBytes(a.task_token),
     commands |-> a.commands,
     identity |-> b.identity,
     sticky_attributes |-> a.sticky_attributes,
     return_new_workflow_task |-> a.return_new_workflow_task,
     force_create_new_workflow_task |-> a.force_create_new_workflow_task,
     worker_version_stamp |->
         Negotiated("complete_workflow_task", v, "worker_version_stamp"),
     messages |-> <<>>,
     binary_checksum |-> Negotiated("complete_workflow_task", v, "binary_checksum"),
     query_results |-> QueryResults(a.query_responses),
     namespace |-> b.namespace,
     sdk_metadata |-> Some(a.sdk_metadata),
     metering_metadata |-> Some(a.metering_metadata)]

RespondActivityTaskCompletedRequest(b, a, v) ==
    [rpc |-> "respond_activity_task_completed",
     task_token |-> TaskTokenBytes(a.task_token),
     result |-> a.result,
     identity |-> b.identity,
     namespace |-> b.namespace,
     worker_version |-> Negotiated("complete_activity_task", v, "worker_version_stamp")]

RecordActivityTaskHeartbeatRequestStamped(b, a, v) ==
    [rpc |-> "record_activity_task_heartbeat",
     task_token |-> TaskTokenBytes(a.task_token),
     details |-> a.details,
     identity |-> b.identity,
     namespace |-> b.namespace,
     worker_version |-> worker_version_stamp(caps, b)]

RecordActivityTaskHeartbeatRequest(b, a, v) ==
    [rpc |-> "record_activity_task_heartbeat",
     task_token |-> TaskTokenBytes(a.task_token),
     details |-> a.details,
     identity |-> b.identity,
     namespace |-> b.namespace]

RespondActivityTaskCanceledRequest(b, a, v) ==
    [rpc |-> "respond_activity_task_canceled",
     task_token |-> TaskTokenBytes(a.task_token),
     details |-> a.details,
     identity |-> b.identity,
     namespace |-> b.namespace,
     worker_version |-> Negotiated("cancel_activity_task", v, "worker_version_stamp")]

RespondActivityTaskFailedRequest(b, a, v) ==
    [rpc |-> "respond_activity_task_failed",
     task_token |-> TaskTokenBytes(a.task_token),
     failure |-> a.failure,
     identity |-> b.identity,
     namespace |-> b.namespace,
     last_heartbeat_details |-> None,
     worker_version |-> Negotiated("fail_activity_task", v, "worker_version_stamp")]

RespondWorkflowTaskFailedRequest(b, a, v) ==
    [rpc |-> "respond_workflow_task_failed",
     task_token |-> TaskTokenBytes(a.task_token),
     cause |-> AsI32(a.cause),
     failure |-> a.failure,
     identity |-> b.identity,
     binary_checksum |-> Negotiated("fail_workflow_task", v, "binary_checksum"),
     namespace |-> b.namespace,
     messages |-> <<>>,
     worker_version |-> Negotiated("fail_workflow_task", v, "worker_version_stamp")]

GetWorkflowExecutionHistoryRequestNullRunId(b, a, v) ==
    [rpc |-> "get_workflow_execution_history",
     namespace |-> b.namespace,
     execution |-> IF IsSome(a.run_id)
                   THEN Some([workflow_id |-> a.workflow_id, run_id |-> a.run_id[1]])
                   ELSE None,
     next_page_token |-> a.page_token]

(* The fields `..Default::default()` fills in are left out: they are the   *)
(* same in every request.                                                  *)
GetWorkflowExecutionHistoryRequest(b, a, v) ==
    [rpc |-> "get_workflow_execution_history",
     namespace |-> b.namespace,
     execution |-> Some([workflow_id |-> a.workflow_id,
                         run_id |-> unwrap_or_default(a.run_id)]),
     next_page_token |-> a.page_token]

RespondQueryTaskCompletedRequest(b, a, v) ==
    LET c == into_components(a.query_result)
    IN  [rpc |-> "respond_query_task_completed",
         task_token |-> TaskTokenBytes(a.task_token),
         completed_type |-> AsI32(c[2]),
         query_result |-> c[3],
         error_message |-> c[4],
         namespace |-> b.namespace]

RequestOf(op, b, a, v) ==
    CASE op = "poll_workflow_task" -> PollWorkflowTaskQueueRequest(b, a, v)
      [] op = "poll_activity_task" -> PollActivityTaskQueueRequest(b, a, v)
      [] op = "complete_workflow_task" -> RespondWorkflowTaskCompletedRequest(b, a, v)
      [] op = "complete_activity_task" -> RespondActivityTaskCompletedRequest(b, a, v)
      [] op = "record_activity_heartbeat" -> RecordActivityTaskHeartbeatRequest(b, a, v)
      [] op = "cancel_activity_task" -> RespondActivityTaskCanceledRequest(b, a, v)
      [] op = "fail_activity_task" -> RespondActivityTaskFailedRequest(b, a, v)
      [] op = "fail_workflow_task" -> RespondWorkflowTaskFailedRequest(b, a, v)
      [] op = "get_workflow_execution_history" ->
            GetWorkflowExecutionHistoryRequest(b, a, v)
      [] op = "respond_legacy_query" -> RespondQueryTaskCompletedRequest(b, a, v)

(***************************************************************************)
(* The transport's outcome and the operation's result.                     *)
(***************************************************************************)
Ok(v) == [tag |-> "Ok", value |-> v]

Err(e) == [tag |-> "Err", error |-> e]

(* tonic::Response<T>: metadata around the message; into_inner drops it.   *)
Response(metadata, message) == [metadata |-> metadata, message |-> message]

into_inner(response) == response.message

(* The transport's accessor for its cached capability descriptor. *)
capabilities(c) == c

(* The transport calls one invocation of an operation makes. *)
TransportCallsEveryOp(op) == 1

TransportCalls(op) == IF op \in CallOps THEN 1 ELSE 0

(***************************************************************************)
(* State: the bag's session fields, the transport's capability cache, and  *)
(* the invocations in progress, one per concurrent caller.                 *)
(***************************************************************************)
NoArgs == [none |-> TRUE]

NoRequest == [rpc |-> "none"]

NoOutcome == [tag |-> "none"]

Idle == [pc |-> "idle", op |-> "none", args |-> NoArgs, vals |-> <<>>,
         seen |-> <<>>, request |-> NoRequest, reply |-> NoOutcome,
         result |-> NoOutcome, calls |-> 0]

(* `Ok(self.client.clone().rpc(request).await?.into_inner())` once the     *)
(* transport has answered: `?` returns the status as it is, a response is  *)
(* unwrapped.                                                              *)
ResumeRetrying(task, outcome) ==
    IF outcome.tag = "Err" /\ task.calls < 2
    THEN [task EXCEPT !.pc = "assembling"]
    ELSE [task EXCEPT !.pc = "done",
                      !.result = IF outcome.tag = "Err"
                                 THEN Err(outcome.error)
                                 ELSE Ok(into_inner(outcome.value))]

Resume(task, outcome) ==
    [task EXCEPT !.pc = "done",
                 !.result = IF outcome.tag = "Err"
                            THEN Err(outcome.error)
                            ELSE Ok(into_inner(outcome.value))]

(***************************************************************************)
(* Bounds and the sets the inputs are drawn from.                          *)
(***************************************************************************)
MaxCommands == 2

MaxQueryResponses == 2

RECURSIVE SeqsUpTo(_, _)
SeqsUpTo(S, n) ==
    IF n = 0 THEN {<<>>}
    ELSE LET shorter == SeqsUpTo(S, n - 1)
         IN  shorter \cup {Append(q, x) : q \in {r \in shorter : Len(r) = n - 1}, x \in S}

Bags == [namespace : {"ns"}, identity : {"worker-1"},
         worker_build_id : {"", "w1"}, use_versioning : BOOLEAN]

CapabilityStates == {None} \cup {Some([build_id_based_versioning |-> e]) : e \in BOOLEAN}

Tokens == {TaskToken("tk1"), TaskToken("tk2")}

OptPayloads == {None, Some("payloads-1")}

OptFailures == {None, Some("failure-1")}

QueryResultValues ==
    [query_id : {"q1", "q2"}, completed_type : {QueryResultType.Answered},
     answer : {Some("answer-1")}, error_message : {""}]
    \cup
    [query_id : {"q1"}, completed_type : {QueryResultType.Failed},
     answer : {None}, error_message : {"query failed"}]

NormalQueue == [name |-> "q1", kind |-> AsI32(TaskQueueKind.Normal), normal_name |-> ""]

StickyQueue == [name |-> "sticky-1", kind |-> AsI32(TaskQueueKind.Sticky),
                normal_name |-> "q1"]

(* The token and the two metadata blocks are opaque values of three        *)
(* different types: they vary together.                                    *)
Envelopes ==
    {[task_token |-> TaskToken("tk1"), sdk_metadata |-> "sdk-meta-1",
      metering_metadata |-> "metering-1"],
     [task_token |-> TaskToken("tk2"), sdk_metadata |-> "sdk-meta-2",
      metering_metadata |-> "metering-2"]}

Completions ==
    {[task_token |-> e.task_token,
      commands |-> c,
      sticky_attributes |-> s,
      query_responses |-> q,
      return_new_workflow_task |-> r,
      force_create_new_workflow_task |-> f,
      sdk_metadata |-> e.sdk_metadata,
      metering_metadata |-> e.metering_metadata] :
        e \in Envelopes,
        c \in SeqsUpTo({"cmd-a", "cmd-b"}, MaxCommands),
        s \in {None, Some("sticky-attrs")},
        q \in SeqsUpTo(QueryResultValues, MaxQueryResponses),
        r \in BOOLEAN,
        f \in BOOLEAN}

SampleCompletion ==
    [task_token |-> TaskToken("tk1"), commands |-> <<"cmd-a">>,
     sticky_attributes |-> None,
     query_responses |-> <<>>,
     return_new_workflow_task |-> TRUE,
     force_create_new_workflow_task |-> FALSE,
     sdk_metadata |-> "sdk-meta-1", metering_metadata |-> "metering-1"]

(* Every argument combination of an operation: the inputs of SpecAssembly. *)
AllArgs(op) ==
    CASE op = "poll_workflow_task" -> [task_queue : {NormalQueue, StickyQueue}]
      [] op = "poll_activity_task" ->
            [task_queue : {"q1", "q2"}, max_tasks_per_sec : {None, Some(5), Some(25)}]
      [] op = "complete_workflow_task" -> Completions
      [] op = "complete_activity_task" -> [task_token : Tokens, result : OptPayloads]
      [] op = "record_activity_heartbeat" -> [task_token : Tokens, details : OptPayloads]
      [] op = "cancel_activity_task" -> [task_token : Tokens, details : OptPayloads]
      [] op = "fail_activity_task" -> [task_token : Tokens, failure : OptFailures]
      [] op = "fail_workflow_task" ->
            [task_token : Tokens,
             cause : {WorkflowTaskFailedCause.Unspecified,
                      WorkflowTaskFailedCause.UnhandledCommand},
             failure : OptFailures]
      [] op = "get_workflow_execution_history" ->
            [workflow_id : {"wf-1", "wf-2"}, run_id : {None, Some("run-1")},
             page_token : {"", "page-2"}]
      [] op = "respond_legacy_query" ->
            [task_token : Tokens, query_result : QueryResultValues]

(* One argument combination per operation: the inputs of Spec, where two   *)
(* callers interleave.                                                     *)
OneArgs(op) ==
    CASE op = "poll_workflow_task" -> {[task_queue |-> NormalQueue]}
      [] op = "poll_activity_task" ->
            {[task_queue |-> "q1", max_tasks_per_sec |-> None]}
      [] op = "complete_workflow_task" -> {SampleCompletion}
      [] op = "complete_activity_task" ->
            {[task_token |-> TaskToken("tk1"), result |-> Some("payloads-1")]}
      [] op = "record_activity_heartbeat" ->
            {[task_token |-> TaskToken("tk1"), details |-> None]}
      [] op = "cancel_activity_task" ->
            {[task_token |-> TaskToken("tk1"), details |-> None]}
      [] op = "fail_activity_task" ->
            {[task_token |-> TaskToken("tk1"), failure |-> Some("failure-1")]}
      [] op = "fail_workflow_task" ->
            {[task_token |-> TaskToken("tk1"),
              cause |-> WorkflowTaskFailedCause.UnhandledCommand,
              failure |-> Some("failure-1")]}
      [] op = "get_workflow_execution_history" ->
            {[workflow_id |-> "wf-1", run_id |-> None, page_token |-> ""]}
      [] op = "respond_legacy_query" ->
            {[task_token |-> TaskToken("tk1"),
              query_result |-> [query_id |-> "q1",
                                completed_type |-> QueryResultType.Answered,
                                answer |-> Some("answer-1"), error_message |-> ""]]}

Statuses == {[code |-> "Unavailable", message |-> "connection reset"],
             [code |-> "NotFound", message |-> "no such task"]}

Outcomes == {Ok(Response("md-1", "response-1"))} \cup {Err(s) : s \in Statuses}

(***************************************************************************)
(* Actions.                                                                *)
(***************************************************************************)
(* A caller invokes operation op with arguments a: the future starts to    *)
(* evaluate its request literal.                                           *)
Call(t, op, a) ==
    /\ tasks[t].pc \in {"idle", "done"}
    /\ tasks' = [tasks EXCEPT ![t] = [Idle EXCEPT !.pc = "assembling",
                                                  !.op = op, !.args = a]]
    /\ UNCHANGED <<bag, caps>>

(* The next negotiator helper of the request literal runs: it reads the    *)
(* capability cache as it is now.                                          *)
Evaluate(t) ==
    LET task == tasks[t]
        order == NegotiatorCalls(task.op)
    IN  /\ task.pc = "assembling"
        /\ Len(task.vals) < Len(order)
        /\ tasks' = [tasks EXCEPT ![t] =
              [task EXCEPT !.vals = Append(@, Negotiate(order[Len(task.vals) + 1],
                                                        capabilities(caps), bag)),
                           !.seen = Append(@, capabilities(caps))]]
        /\ UNCHANGED <<bag, caps>>

(* The request literal is complete and goes to the transport. *)
Issue(t) ==
    LET task == tasks[t]
    IN  /\ task.pc = "assembling"
        /\ Len(task.vals) = Len(NegotiatorCalls(task.op))
        /\ tasks' = [tasks EXCEPT ![t] =
              [task EXCEPT !.pc = "awaiting",
                           !.request = RequestOf(task.op, bag, task.args, task.vals),
                           !.calls = @ + TransportCalls(task.op)]]
        /\ UNCHANGED <<bag, caps>>

(* The transport answers the call and the operation returns. *)
Respond(t, outcome) ==
    /\ tasks[t].pc = "awaiting"
    /\ tasks' = [tasks EXCEPT ![t] = Resume([tasks[t] EXCEPT !.reply = outcome], outcome)]
    /\ UNCHANGED <<bag, caps>>

(* WorkerClient::capabilities: the accessor, answered from the cache. *)
Capabilities(t) ==
    /\ tasks[t].pc \in {"idle", "done"}
    /\ tasks' = [tasks EXCEPT ![t] =
          [Idle EXCEPT !.pc = "done", !.op = "capabilities",
                       !.result = capabilities(caps),
                       !.calls = TransportCalls("capabilities")]]
    /\ UNCHANGED <<bag, caps>>

(* The transport fills its capability cache, once, from the server's       *)
(* system info.                                                            *)
Populate(enabled) ==
    /\ caps = None
    /\ caps' = Some([build_id_based_versioning |-> enabled])
    /\ UNCHANGED <<bag, tasks>>

(***************************************************************************)
(* Spec: two concurrent callers, one argument combination per operation.   *)
(***************************************************************************)
Callers == {"caller-1", "caller-2"}

Init ==
    /\ bag \in Bags
    /\ caps \in CapabilityStates
    /\ tasks = [t \in Callers |-> Idle]

Next ==
    \/ \E t \in DOMAIN tasks, op \in CallOps : \E a \in OneArgs(op) : Call(t, op, a)
    \/ \E t \in DOMAIN tasks : Evaluate(t)
    \/ \E t \in DOMAIN tasks : Issue(t)
    \/ \E t \in DOMAIN tasks, outcome \in Outcomes : Respond(t, outcome)
    \/ \E t \in DOMAIN tasks : Capabilities(t)
    \/ \E enabled \in BOOLEAN : Populate(enabled)

Spec == Init /\ [][Next]_vars

(***************************************************************************)
(* SpecAssembly: one caller making one invocation, with every argument     *)
(* combination.                                                            *)
(***************************************************************************)
InitAssembly ==
    /\ bag \in Bags
    /\ caps \in CapabilityStates
    /\ tasks = [t \in {"caller-1"} |-> Idle]

NextAssembly ==
    \/ \E t \in DOMAIN tasks :
          /\ tasks[t].pc = "idle"
          /\ \E op \in CallOps : \E a \in AllArgs(op) : Call(t, op, a)
    \/ \E t \in DOMAIN tasks : Evaluate(t)
    \/ \E t \in DOMAIN tasks : Issue(t)
    \/ \E t \in DOMAIN tasks, outcome \in Outcomes : Respond(t, outcome)
    \/ \E t \in DOMAIN tasks : Capabilities(t)
    \/ \E enabled \in BOOLEAN : Populate(enabled)

SpecAssembly == InitAssembly /\ [][NextAssembly]_vars

(***************************************************************************)
(* Properties.                                                             *)
(***************************************************************************)
(* The invocation of caller t has handed its request to the transport. *)
Issued(t) == tasks[t].op \in CallOps /\ tasks[t].pc \in {"awaiting", "done"}

(* The descriptor c says the server does build-id based versioning. *)
VersioningEnabled(c) == c # None /\ c[1].build_id_based_versioning

ExpectedChecksum(c) == IF VersioningEnabled(c) THEN "" ELSE bag.worker_build_id

ExpectedStamp(c) ==
    IF VersioningEnabled(c)
    THEN <<[build_id |-> bag.worker_build_id, bundle_id |-> "",
            use_versioning |-> bag.use_versioning]>>
    ELSE <<>>

ExpectedCapabilities(c) ==
    IF VersioningEnabled(c)
    THEN <<[build_id |-> bag.worker_build_id, use_versioning |-> bag.use_versioning]>>
    ELSE <<>>

(* The version stamp (or, for the poll, the version capabilities) and the  *)
(* binary checksum of the request of a workflow-task operation.            *)
ChecksumOps == {"poll_workflow_task", "complete_workflow_task", "fail_workflow_task"}

StampOf(t) ==
    CASE tasks[t].op = "poll_workflow_task" -> tasks[t].request.worker_version_capabilities
      [] tasks[t].op = "complete_workflow_task" -> tasks[t].request.worker_version_stamp
      [] tasks[t].op = "fail_workflow_task" -> tasks[t].request.worker_version

(* Every negotiator call of the invocation saw the same capability state. *)
OneCapabilityState(t) ==
    \A i, j \in 1..Len(tasks[t].seen) : tasks[t].seen[i] = tasks[t].seen[j]

(* C1: a request poll_workflow_task, complete_workflow_task or             *)
(* fail_workflow_task assembles under one capability state never has both  *)
(* its binary checksum and its version stamp / version capabilities set:   *)
(* with the stamp present the checksum is "", and a non-empty checksum is  *)
(* the build id and comes with an absent stamp.                            *)
C1_MutualExclusivity ==
    \A t \in DOMAIN tasks :
        (Issued(t) /\ tasks[t].op \in ChecksumOps /\ OneCapabilityState(t)) =>
            /\ StampOf(t) # None => tasks[t].request.binary_checksum = ""
            /\ tasks[t].request.binary_checksum # "" =>
                  /\ tasks[t].request.binary_checksum = bag.worker_build_id
                  /\ StampOf(t) = None

C1_Witness ==
    \E t, u \in DOMAIN tasks :
        /\ Issued(t) /\ tasks[t].op = "fail_workflow_task" /\ OneCapabilityState(t)
        /\ StampOf(t) # None /\ tasks[t].request.binary_checksum = ""
        /\ Issued(u) /\ tasks[u].op = "poll_workflow_task" /\ OneCapabilityState(u)
        /\ StampOf(u) # None
        /\ bag.worker_build_id = "w1"

(* C5: every value a negotiator helper returns is the one the capability   *)
(* state it read determines: descriptor absent or versioning disabled      *)
(* gives checksum = build id and no stamp and no capabilities; versioning  *)
(* enabled gives checksum "", stamp {build id, "", flag} and capabilities  *)
(* {build id, flag}.                                                       *)
C5_Negotiator ==
    \A t \in DOMAIN tasks :
        \A i \in 1..Len(tasks[t].vals) :
            LET name == NegotiatorCalls(tasks[t].op)[i]
                c == tasks[t].seen[i]
                val == tasks[t].vals[i]
            IN  /\ name = "binary_checksum" => val = ExpectedChecksum(c)
                /\ name = "worker_version_stamp" => val = ExpectedStamp(c)
                /\ name = "worker_version_capabilities" => val = ExpectedCapabilities(c)

C5_Witness ==
    \E t, u \in DOMAIN tasks :
        /\ tasks[t].op = "complete_workflow_task" /\ Len(tasks[t].vals) = 2
        /\ tasks[t].seen = <<Some([build_id_based_versioning |-> TRUE]),
                             Some([build_id_based_versioning |-> TRUE])>>
        /\ tasks[t].vals = <<Some([build_id |-> "w1", bundle_id |-> "",
                                   use_versioning |-> TRUE]), "">>
        /\ tasks[u].op = "poll_activity_task" /\ Len(tasks[u].vals) = 1
        /\ tasks[u].vals[1] = Some([build_id |-> "w1", use_versioning |-> TRUE])

(* C9: no request of poll_workflow_task, complete_workflow_task or          *)
(* fail_workflow_task carries both a build-id binary checksum and a        *)
(* present version stamp / version capabilities, and none (with a          *)
(* non-empty build id) carries an empty checksum with an absent stamp,     *)
(* also when the capability cache is populated while the request is        *)
(* being assembled.                                                        *)
C9_SingleSnapshot ==
    \A t \in DOMAIN tasks :
        (Issued(t) /\ tasks[t].op \in ChecksumOps) =>
            /\ ~(tasks[t].request.binary_checksum # "" /\ StampOf(t) # None)
            /\ bag.worker_build_id # "" =>
                  ~(tasks[t].request.binary_checksum = "" /\ StampOf(t) = None)

(* The requests carry a version stamp field (named worker_version_stamp in *)
(* the workflow-task completion, worker_version elsewhere).                *)
HasStampField(request) ==
    "worker_version_stamp" \in DOMAIN request \/ "worker_version" \in DOMAIN request

StampField(request) ==
    IF "worker_version_stamp" \in DOMAIN request
    THEN request.worker_version_stamp
    ELSE request.worker_version

StampOps == {"complete_workflow_task", "complete_activity_task",
             "cancel_activity_task", "fail_activity_task", "fail_workflow_task"}

(* C3 as stated: the heartbeat request has no version stamp field, and     *)
(* the request of every other call-issuing operation has one.              *)
C3_OnlyHeartbeatUnstamped ==
    \A t \in DOMAIN tasks :
        Issued(t) =>
            (HasStampField(tasks[t].request) <=> tasks[t].op # "record_activity_heartbeat")

(* C3 amended: the heartbeat request has no version stamp field in any     *)
(* capability state, and neither have the requests of the two polls, of    *)
(* get_workflow_execution_history and of respond_legacy_query; the five    *)
(* completion, cancellation and failure operations have one, holding the   *)
(* negotiator's stamp.                                                     *)
C3_StampFields ==
    \A t \in DOMAIN tasks :
        Issued(t) =>
            /\ HasStampField(tasks[t].request) <=> tasks[t].op \in StampOps
            /\ tasks[t].op \in StampOps =>
                  \E i \in 1..Len(tasks[t].seen) :
                      StampField(tasks[t].request) = ExpectedStamp(tasks[t].seen[i])

C3_Witness ==
    \E t, u \in DOMAIN tasks :
        /\ Issued(t) /\ tasks[t].op = "record_activity_heartbeat"
        /\ VersioningEnabled(caps)
        /\ Issued(u) /\ tasks[u].op = "complete_activity_task"
        /\ tasks[u].request.worker_version # None

(* C4: an operation invokes the transport exactly once, and returns the    *)
(* transport's outcome: the same status (code and message) when the call   *)
(* failed, the response's payload when it succeeded.                       *)
C4_OutcomePropagated ==
    \A t \in DOMAIN tasks :
        tasks[t].op \in CallOps =>
            /\ tasks[t].pc = "assembling" => tasks[t].calls = 0
            /\ tasks[t].pc \in {"awaiting", "done"} => tasks[t].calls = 1
            /\ tasks[t].pc = "done" =>
                  /\ tasks[t].reply.tag \in {"Ok", "Err"}
                  /\ tasks[t].reply.tag = "Err" =>
                        /\ tasks[t].result.tag = "Err"
                        /\ tasks[t].result.error.code = tasks[t].reply.error.code
                        /\ tasks[t].result.error.message = tasks[t].reply.error.message
                  /\ tasks[t].reply.tag = "Ok" =>
                        /\ tasks[t].result.tag = "Ok"
                        /\ tasks[t].result.value = tasks[t].reply.value.message

C4_Witness ==
    \E t, u \in DOMAIN tasks :
        /\ tasks[t].op = "poll_workflow_task" /\ tasks[t].pc = "done"
        /\ tasks[t].result = Err([code |-> "NotFound", message |-> "no such task"])
        /\ tasks[t].calls = 1
        /\ tasks[u].op = "complete_activity_task" /\ tasks[u].pc = "done"
        /\ tasks[u].result = Ok("response-1")

(* A step leaves the session fields as they are. *)
C10_SessionFrame == bag' = bag

(* A step of one invocation leaves every other invocation as it was. *)
C10_NonInterference ==
    \A t, u \in DOMAIN tasks :
        (t # u /\ tasks'[t] # tasks[t]) => tasks'[u] = tasks[u]

(* Same operation, arguments and capability states read: same request. *)
C10_SameInputsSameRequest ==
    \A t, u \in DOMAIN tasks :
        (/\ Issued(t) /\ Issued(u)
         /\ tasks[t].op = tasks[u].op
         /\ tasks[t].args = tasks[u].args
         /\ tasks[t].seen = tasks[u].seen) => tasks[t].request = tasks[u].request

(* The capabilities accessor returns without a transport call. *)
C10_AccessorIssuesNoCall ==
    \A t \in DOMAIN tasks :
        tasks[t].op = "capabilities" =>
            /\ tasks[t].calls = 0
            /\ tasks[t].request = NoRequest
            /\ tasks[t].pc = "done"

(* C10: no step changes the session fields (namespace, identity, build id, *)
(* use-versioning flag); a step of one invocation leaves every other       *)
(* invocation as it was; two invocations of the same operation with the    *)
(* same arguments that read the same capability states hand the same       *)
(* request to the transport, whatever ran before or beside them; and the   *)
(* capabilities accessor makes no transport call.                          *)
C10_Independence ==
    /\ [](C10_SameInputsSameRequest /\ C10_AccessorIssuesNoCall)
    /\ [][C10_SessionFrame /\ C10_NonInterference]_vars

C10_Witness ==
    /\ tasks["caller-1"].op = "fail_workflow_task" /\ tasks["caller-1"].pc = "done"
    /\ tasks["caller-1"].result.tag = "Err"
    /\ tasks["caller-2"].op = "fail_workflow_task" /\ tasks["caller-2"].pc = "awaiting"
    /\ tasks["caller-1"].seen = tasks["caller-2"].seen
    /\ tasks["caller-1"].request = tasks["caller-2"].request
    /\ VersioningEnabled(caps)

(* The ids of a sequence of query results. *)
QueryIds(query_responses) ==
    {query_responses[i].query_id : i \in 1..Len(query_responses)}

(* The entry of the request that answers the input query result qr. *)
EntryMatches(query_results, qr) ==
    /\ qr.query_id \in DOMAIN query_results
    /\ query_results[qr.query_id].result_type = qr.completed_type.discriminant
    /\ query_results[qr.query_id].answer = qr.answer
    /\ query_results[qr.query_id].error_message = qr.error_message

(* C2 as stated: the request of complete_workflow_task has exactly as many *)
(* query_results entries as the record has query results, and every input  *)
(* query result has the entry under its id equal to its components.        *)
C2_OneEntryPerQueryResult ==
    \A t \in DOMAIN tasks :
        (Issued(t) /\ tasks[t].op = "complete_workflow_task") =>
            LET input == tasks[t].args.query_responses
                output == tasks[t].request.query_results
            IN  /\ Cardinality(DOMAIN output) = Len(input)
                /\ \A i \in 1..Len(input) : EntryMatches(output, input[i])

(* C2 amended: query_results has one entry per distinct query id of the    *)
(* record, so exactly N entries when the N ids differ pairwise; the entry  *)
(* under an id equals the components of the last input query result with   *)
(* that id.                                                                *)
C2_OneEntryPerQueryId ==
    \A t \in DOMAIN tasks :
        (Issued(t) /\ tasks[t].op = "complete_workflow_task") =>
            LET input == tasks[t].args.query_responses
                output == tasks[t].request.query_results
            IN  /\ DOMAIN output = QueryIds(input)
                /\ Cardinality(QueryIds(input)) = Len(input) =>
                      Cardinality(DOMAIN output) = Len(input)
                /\ \A i \in 1..Len(input) :
                      (\A j \in (i + 1)..Len(input) :
                            input[j].query_id # input[i].query_id) =>
                          EntryMatches(output, input[i])

C2_Witness ==
    \E t \in DOMAIN tasks :
        /\ Issued(t) /\ tasks[t].op = "complete_workflow_task"
        /\ Len(tasks[t].args.query_responses) = 2
        /\ tasks[t].args.query_responses[1].query_id = "q1"
        /\ tasks[t].args.query_responses[2].query_id = "q1"
        /\ tasks[t].args.query_responses[1].completed_type.variant = "Answered"
        /\ tasks[t].args.query_responses[2].completed_type.variant = "Failed"
        /\ DOMAIN tasks[t].request.query_results = {"q1"}
        /\ tasks[t].request.query_results["q1"].error_message = "query failed"

(* C6: the request of complete_workflow_task carries the record's task     *)
(* token, its commands in order, its sticky attributes as they are, each   *)
(* continuation flag under its own name, the SDK and metering metadata as  *)
(* present values, the session's identity and namespace, the negotiator's  *)
(* version stamp and binary checksum, and no inter-SDK messages.           *)
C6_CompletionFields ==
    \A t \in DOMAIN tasks :
        (Issued(t) /\ tasks[t].op = "complete_workflow_task") =>
            LET a == tasks[t].args
                r == tasks[t].request
            IN  /\ r.task_token = a.task_token.inner
                /\ r.commands = a.commands
                /\ r.sticky_attributes = a.sticky_attributes
                /\ r.return_new_workflow_task = a.return_new_workflow_task
                /\ r.force_create_new_workflow_task = a.force_create_new_workflow_task
                /\ r.sdk_metadata = <<a.sdk_metadata>>
                /\ r.metering_metadata = <<a.metering_metadata>>
                /\ r.identity = bag.identity
                /\ r.namespace = bag.namespace
                /\ r.worker_version_stamp = ExpectedStamp(tasks[t].seen[1])
                /\ r.binary_checksum = ExpectedChecksum(tasks[t].seen[2])
                /\ r.messages = <<>>

C6_Witness ==
    \E t \in DOMAIN tasks :
        /\ Issued(t) /\ tasks[t].op = "complete_workflow_task"
        /\ tasks[t].args.commands = <<"cmd-b", "cmd-a">>
        /\ tasks[t].args.sticky_attributes = None
        /\ tasks[t].args.return_new_workflow_task
        /\ ~tasks[t].args.force_create_new_workflow_task
        /\ tasks[t].request.return_new_workflow_task
        /\ tasks[t].request.task_token = "tk2"
        /\ tasks[t].request.worker_version_stamp # None

(* C7: the request of get_workflow_execution_history has a present         *)
(* execution reference with the given workflow id, whose run id is the     *)
(* given one, or "" when none is given; it has the given page token and    *)
(* the session's namespace; and an invocation without run id gets to hand  *)
(* its request to the transport.                                           *)
C7_HistoryExecution ==
    \A t \in DOMAIN tasks :
        tasks[t].op = "get_workflow_execution_history" =>
            LET a == tasks[t].args
                r == tasks[t].request
            IN  /\ tasks[t].pc = "assembling" => ENABLED Issue(t)
                /\ Issued(t) =>
                      /\ Len(r.execution) = 1
                      /\ r.execution[1].workflow_id = a.workflow_id
                      /\ a.run_id = <<>> => r.execution[1].run_id = ""
                      /\ a.run_id # <<>> => r.execution[1].run_id = a.run_id[1]
                      /\ r.next_page_token = a.page_token
                      /\ r.namespace = bag.namespace

C7_Witness ==
    \E t \in DOMAIN tasks :
        /\ Issued(t) /\ tasks[t].op = "get_workflow_execution_history"
        /\ tasks[t].args.run_id = <<>>
        /\ tasks[t].args.workflow_id = "wf-2"
        /\ tasks[t].args.page_token = "page-2"
        /\ tasks[t].request.execution = <<[workflow_id |-> "wf-2", run_id |-> ""]>>

(* C8: the request of poll_activity_task has the queue descriptor          *)
(* {name: the given name, kind: normal, normal_name: ""}, queue metadata   *)
(* exactly when a rate limit is given, then holding that limit, the        *)
(* session's identity and namespace, and the poll-time version             *)
(* capabilities.                                                           *)
C8_ActivityPoll ==
    \A t \in DOMAIN tasks :
        (Issued(t) /\ tasks[t].op = "poll_activity_task") =>
            LET a == tasks[t].args
                r == tasks[t].request
            IN  /\ r.task_queue = <<[name |-> a.task_queue,
                                     kind |-> TaskQueueKind.Normal.discriminant,
                                     normal_name |-> ""]>>
                /\ a.max_tasks_per_sec = <<>> => r.task_queue_metadata = <<>>
                /\ a.max_tasks_per_sec # <<>> =>
                      r.task_queue_metadata =
                          <<[max_tasks_per_second |-> <<a.max_tasks_per_sec[1]>>]>>
                /\ r.identity = bag.identity
                /\ r.namespace = bag.namespace
                /\ r.worker_version_capabilities = ExpectedCapabilities(tasks[t].seen[1])

C8_Witness ==
    \E t \in DOMAIN tasks :
        /\ Issued(t) /\ tasks[t].op = "poll_activity_task"
        /\ tasks[t].args = [task_queue |-> "q1", max_tasks_per_sec |-> <<>>]
        /\ tasks[t].request.task_queue =
              <<[name |-> "q1", kind |-> 1, normal_name |-> ""]>>
        /\ tasks[t].request.task_queue_metadata = <<>>

====
